---- MODULE Spec2Model ----
(***************************************************************************)
(* Model of the inventory application in src/app.py: the User, Product,    *)
(* Batch and Log tables of the SQLite store and the request handlers that  *)
(* write them.  Quantities are integer-valued (doubles are exact on them). *)
(* Columns that no handler reads back (brand, supplier, unit_measure,      *)
(* unit_price, password_hash, entry_date, created_by, timestamp) are left  *)
(* out of the rows.                                                        *)
(***************************************************************************)
EXTENDS Integers, Sequences, FiniteSets, TLC

VARIABLES users, products, batches, logs, resp, view, req

vars == <<users, products, batches, logs, resp, view, req>>

store == <<users, products, batches, logs>>

----------------------------------------------------------------------------
(* Bounds of the model *)

MaxLog == 3
MaxProductId == 2
MaxBatchId == 2
MaxUserId == 2
MaxDate == 2

(* Input domains *)

Missing == "<missing>"
NoExpiry == 0

Usernames == {"admin", "bob"}
RoleInputs == {"admin", "guest", Missing}
Barcodes == {"111", "222"}
BarcodeInputs == Barcodes \cup {Missing}
Names == {"Flour", "Rye"}
Quantities == {0 - 1, 0, 1, 2}
Dates == 1..MaxDate
ExpiryInputs == {NoExpiry} \cup Dates
Requests == {1, 2}

----------------------------------------------------------------------------
(* Store helpers *)

RECURSIVE MaxOf(_)
MaxOf(S) ==
    IF S = {} THEN 0
    ELSE LET x == CHOOSE y \in S : TRUE
             m == MaxOf(S \ {x})
         IN IF x > m THEN x ELSE m

(* SQLite rowid allocation for an INTEGER PRIMARY KEY: largest id + 1 *)
NextId(rows) == MaxOf({r.id : r \in rows}) + 1

DefaultRole == "user"

RoleColumn(role) == IF role = Missing THEN DefaultRole ELSE role

NotAdminLax(u) == u.role = "user"

NotAdmin(u) == u.role # "admin"

BarcodeTakenNever(barcode) == FALSE

BarcodeTaken(barcode) == \E p \in products : p.barcode = barcode

(* the unique, NOT NULL barcode column: what a commit of `rows` requires *)
BarcodeColumnOk(rows) ==
    /\ \A p \in rows : p.barcode # Missing
    /\ \A p, q \in rows : p.barcode = q.barcode => p = q

UsernameTaken(username) == \E u \in users : u.username = username

InsufficientNever(qty_to_use, current) == FALSE

Insufficient(qty_to_use, current) == qty_to_use > current

DecrementNone(current, qty_to_use) == current

Decrement(current, qty_to_use) == current - qty_to_use

LogRowZero(user, name, action, qty) ==
    [user_id |-> user, product_name |-> name, action |-> action,
     quantity_change |-> 0]

LogRow(user, name, action, qty) ==
    [user_id |-> user, product_name |-> name, action |-> action,
     quantity_change |-> qty]

CascadeNone(rows, id) == rows

(* relationship cascade "all, delete-orphan": the batches left after the *)
(* product `id` is deleted                                               *)
Cascade(rows, id) == {b \in rows : b.product_id # id}

RECURSIVE SumCurrent(_)
SumCurrent(rows) ==
    IF rows = {} THEN 0
    ELSE LET b == CHOOSE x \in rows : TRUE
         IN b.quantity_current + SumCurrent(rows \ {b})

total_quantity(p) == SumCurrent({b \in batches : b.product_id = p.id})

(* a server thread holding no request *)
IdleRequest ==
    [pc |-> "idle", user |-> "", batch_id |-> 0, qty_to_use |-> 0,
     quantity_current |-> 0, seen |-> 0, pos |-> 0]

Respond(op, result) == resp' = [op |-> op, result |-> result]

----------------------------------------------------------------------------
Init ==
    /\ users = {[id |-> 1, username |-> "admin", role |-> "admin"]}
    /\ products = {}
    /\ batches = {}
    /\ logs = <<>>
    /\ resp = [op |-> "none", result |-> "none"]
    /\ view = [product_id |-> 0, batches |-> <<>>]
    /\ req = [r \in Requests |-> IdleRequest]

----------------------------------------------------------------------------
(* POST /product/new *)
create_product(actor, barcode, name) ==
    /\ actor \in users
    /\ UNCHANGED <<users, batches, view, req>>
    /\ IF BarcodeTaken(barcode)
       THEN /\ Respond("create_product", "duplicate")
            /\ UNCHANGED <<products, logs>>
       ELSE LET new_prod == [id |-> NextId(products), barcode |-> barcode,
                             name |-> name]
            IN IF BarcodeColumnOk(products \cup {new_prod})
               THEN /\ products' = products \cup {new_prod}
                    /\ logs' = Append(logs,
                                 LogRow(actor.username, name, "CREATE", 0))
                    /\ Respond("create_product", "ok")
               ELSE /\ Respond("create_product", "error")
                    /\ UNCHANGED <<products, logs>>

(* POST /product/<id>/edit *)
edit_product(actor, id, new_barcode, name) ==
    /\ actor \in users
    /\ UNCHANGED <<users, batches, logs, view, req>>
    /\ IF NotAdmin(actor)
       THEN /\ Respond("edit_product", "forbidden")
            /\ UNCHANGED products
       ELSE IF ~ \E p \in products : p.id = id
       THEN /\ Respond("edit_product", "notfound")
            /\ UNCHANGED products
       ELSE LET product == CHOOSE p \in products : p.id = id
                edited == [product EXCEPT !.barcode = new_barcode,
                                          !.name = name]
                rows == (products \ {product}) \cup {edited}
            IN IF new_barcode # product.barcode /\ BarcodeTaken(new_barcode)
               THEN /\ Respond("edit_product", "duplicate")
                    /\ UNCHANGED products
               ELSE IF BarcodeColumnOk(rows)
               THEN /\ products' = rows
                    /\ Respond("edit_product", "ok")
               ELSE /\ Respond("edit_product", "error")
                    /\ UNCHANGED products

(* POST /product/<id>/delete *)
delete_product(actor, id) ==
    /\ actor \in users
    /\ UNCHANGED <<users, logs, view, req>>
    /\ IF NotAdmin(actor)
       THEN /\ Respond("delete_product", "forbidden")
            /\ UNCHANGED <<products, batches>>
       ELSE IF ~ \E p \in products : p.id = id
       THEN /\ Respond("delete_product", "notfound")
            /\ UNCHANGED <<products, batches>>
       ELSE /\ products' = {p \in products : p.id # id}
            /\ batches' = Cascade(batches, id)
            /\ Respond("delete_product", "ok")

(* POST /add_batch/<product_id> *)
add_batch(actor, product_id, qty, expiry) ==
    /\ actor \in users
    /\ UNCHANGED <<users, products, view, req>>
    /\ IF ~ \E p \in products : p.id = product_id
       THEN /\ Respond("add_batch", "notfound")
            /\ UNCHANGED <<batches, logs>>
       ELSE LET product == CHOOSE p \in products : p.id = product_id
                new_batch == [id |-> NextId(batches),
                              product_id |-> product.id,
                              quantity_initial |-> qty,
                              quantity_current |-> qty,
                              expiry_date |-> expiry]
            IN /\ batches' = batches \cup {new_batch}
               /\ logs' = Append(logs,
                            LogRow(actor.username, product.name, "IN", qty))
               /\ Respond("add_batch", "ok")

(* POST /use_batch/<batch_id> *)
use_batch(actor, batch_id, qty_to_use) ==
    /\ actor \in users
    /\ UNCHANGED <<users, products, view, req>>
    /\ IF ~ \E b \in batches : b.id = batch_id
       THEN /\ Respond("use_batch", "notfound")
            /\ UNCHANGED <<batches, logs>>
       ELSE LET batch == CHOOSE b \in batches : b.id = batch_id
            IN IF Insufficient(qty_to_use, batch.quantity_current)
               THEN /\ Respond("use_batch", "insufficient")
                    /\ UNCHANGED <<batches, logs>>
               ELSE LET product ==
                          CHOOSE p \in products : p.id = batch.product_id
                        used == [batch EXCEPT !.quantity_current =
                                   Decrement(batch.quantity_current,
                                             qty_to_use)]
                    IN /\ batches' = (batches \ {batch}) \cup {used}
                       /\ logs' = Append(logs,
                                    LogRow(actor.username, product.name,
                                           "OUT", qty_to_use))
                       /\ Respond("use_batch", "ok")

(* POST /admin/users, action=create *)
create_user(actor, username, role) ==
    /\ actor \in users
    /\ UNCHANGED <<products, batches, logs, view, req>>
    /\ IF NotAdmin(actor)
       THEN /\ Respond("create_user", "forbidden")
            /\ UNCHANGED users
       ELSE IF UsernameTaken(username)
       THEN /\ Respond("create_user", "duplicate")
            /\ UNCHANGED users
       ELSE /\ users' = users \cup {[id |-> NextId(users),
                                     username |-> username,
                                     role |-> RoleColumn(role)]}
            /\ Respond("create_user", "ok")

(* POST /admin/users, action=delete *)
delete_user(actor, user_id) ==
    /\ actor \in users
    /\ UNCHANGED <<products, batches, logs, view, req>>
    /\ IF NotAdmin(actor)
       THEN /\ Respond("delete_user", "forbidden")
            /\ UNCHANGED users
       ELSE /\ users' = {u \in users : u.id # user_id}
            /\ Respond("delete_user", "ok")

----------------------------------------------------------------------------
(* GET /product/<id>: the active batches of the product, as the query   *)
(* filter_by(product_id).filter(quantity_current > 0)                   *)
(* .order_by(expiry_date.asc()) returns them from SQLite                *)
ExpiryKeyNullsLast(expiry) == IF expiry = NoExpiry THEN MaxDate + 1 ELSE expiry

(* SQLite orders NULL before every value in an ascending sort *)
ExpiryKey(expiry) == IF expiry = NoExpiry THEN 0 ELSE expiry

ActiveOf(id) == {b \in batches : b.product_id = id /\ b.quantity_current > 0}

(* every row order the ORDER BY allows: rows with equal keys come in an *)
(* order the query does not fix                                         *)
OrderedByExpiry(rows) ==
    {s \in [1..Cardinality(rows) -> rows] :
        /\ \A i, j \in DOMAIN s : i # j => s[i] # s[j]
        /\ \A i, j \in DOMAIN s :
              i < j => ExpiryKey(s[i].expiry_date) <= ExpiryKey(s[j].expiry_date)}

product_detail(actor, id) ==
    /\ actor \in users
    /\ UNCHANGED <<users, products, batches, logs, req>>
    /\ IF ~ \E p \in products : p.id = id
       THEN /\ Respond("product_detail", "notfound")
            /\ UNCHANGED view
       ELSE /\ Respond("product_detail", "ok")
            /\ \E rows \in OrderedByExpiry(ActiveOf(id)) :
                  view' = [product_id |-> id, batches |-> rows]

----------------------------------------------------------------------------
(* POST /use_batch/<batch_id> served by two threads of the server: the  *)
(* handler loads the Batch row into its session (use_batch_load), then  *)
(* checks and decrements the loaded value and commits the UPDATE and    *)
(* the Log row (use_batch_commit).  seen and pos record the length of   *)
(* the Log at the load and after the commit.                            *)
use_batch_load(r, actor, batch_id, qty_to_use) ==
    /\ actor \in users
    /\ req[r].pc = "idle"
    /\ UNCHANGED <<users, products, batches, logs, resp, view>>
    /\ IF ~ \E b \in batches : b.id = batch_id
       THEN req' = [req EXCEPT ![r].pc = "notfound"]
       ELSE LET batch == CHOOSE b \in batches : b.id = batch_id
            IN req' = [req EXCEPT ![r] =
                         [pc |-> "loaded", user |-> actor.username,
                          batch_id |-> batch_id, qty_to_use |-> qty_to_use,
                          quantity_current |-> batch.quantity_current,
                          seen |-> Len(logs), pos |-> 0]]

use_batch_commit(r) ==
    /\ req[r].pc = "loaded"
    /\ UNCHANGED <<users, products, resp, view>>
    /\ IF Insufficient(req[r].qty_to_use, req[r].quantity_current)
       THEN /\ req' = [req EXCEPT ![r].pc = "insufficient"]
            /\ UNCHANGED <<batches, logs>>
       ELSE LET batch == CHOOSE b \in batches : b.id = req[r].batch_id
                product == CHOOSE p \in products : p.id = batch.product_id
                used == [batch EXCEPT !.quantity_current =
                           Decrement(req[r].quantity_current,
                                     req[r].qty_to_use)]
            IN /\ batches' = (batches \ {batch}) \cup {used}
               /\ logs' = Append(logs,
                            LogRow(req[r].user, product.name, "OUT",
                                   req[r].qty_to_use))
               /\ req' = [req EXCEPT ![r].pc = "ok", ![r].pos = Len(logs')]

----------------------------------------------------------------------------
(* One request of a logged-in user (login_required + load_user), with    *)
(* the form fields drawn from the given input sets; maxLog and maxBatch  *)
(* bound the tables.                                                     *)
CreateProduct(barcodeSet, nameSet, maxLog) ==
    \E actor \in users, barcode \in barcodeSet, name \in nameSet :
       /\ create_product(actor, barcode, name)
       /\ Len(logs') <= maxLog
       /\ \A p \in products' : p.id <= MaxProductId

EditProduct(barcodeSet, nameSet) ==
    \E actor \in users, id \in 1..MaxProductId,
       barcode \in barcodeSet, name \in nameSet :
       edit_product(actor, id, barcode, name)

DeleteProduct ==
    \E actor \in users, id \in 1..MaxProductId : delete_product(actor, id)

AddBatch(qtySet, expirySet, maxLog, maxBatch) ==
    \E actor \in users, id \in 1..MaxProductId,
       qty \in qtySet, expiry \in expirySet :
       /\ add_batch(actor, id, qty, expiry)
       /\ Len(logs') <= maxLog
       /\ \A b \in batches' : b.id <= maxBatch

UseBatch(qtySet, maxLog, maxBatch) ==
    \E actor \in users, id \in 1..maxBatch, qty \in qtySet :
       /\ use_batch(actor, id, qty)
       /\ Len(logs') <= maxLog

CreateUser ==
    \E actor \in users, username \in Usernames, role \in RoleInputs :
       /\ create_user(actor, username, role)
       /\ \A u \in users' : u.id <= MaxUserId

DeleteUser ==
    \E actor \in users, id \in 1..MaxUserId : delete_user(actor, id)

ProductDetail ==
    \E actor \in users, id \in 1..MaxProductId : product_detail(actor, id)

UseBatchLoad(qtySet) ==
    \E r \in Requests, actor \in users,
       id \in 1..MaxBatchId, qty \in qtySet :
       use_batch_load(r, actor, id, qty)

UseBatchCommit == \E r \in Requests : use_batch_commit(r)

(* Catalog and stock handlers, run one request at a time *)
Next ==
    \/ CreateProduct(BarcodeInputs, Names, MaxLog)
    \/ EditProduct(BarcodeInputs, Names)
    \/ DeleteProduct
    \/ AddBatch(Quantities, {NoExpiry}, MaxLog, MaxBatchId)
    \/ UseBatch(Quantities, MaxLog, MaxBatchId)

Spec == Init /\ [][Next]_vars

(* The catalog handlers over stock received and used one unit at a time *)
NextCatalog ==
    \/ CreateProduct(BarcodeInputs, Names, MaxLog)
    \/ EditProduct(BarcodeInputs, Names)
    \/ DeleteProduct
    \/ AddBatch({1}, {NoExpiry}, MaxLog, MaxBatchId)
    \/ UseBatch({1}, MaxLog, MaxBatchId)

SpecCatalog == Init /\ [][NextCatalog]_vars

(* All writing handlers, user management included *)
AdminQuantities == {1}

NextAdmin ==
    \/ CreateProduct(Barcodes, Names, MaxLog)
    \/ EditProduct(Barcodes, Names)
    \/ DeleteProduct
    \/ AddBatch(AdminQuantities, {NoExpiry}, MaxLog, MaxBatchId)
    \/ UseBatch(AdminQuantities, MaxLog, MaxBatchId)
    \/ CreateUser
    \/ DeleteUser

SpecAdmin == Init /\ [][NextAdmin]_vars

(* Stock handlers with expiry dates, and the product page *)
ViewQuantities == 0..1

NextView ==
    \/ CreateProduct({"111"}, {"Flour"}, MaxLog + 1)
    \/ AddBatch(ViewQuantities, ExpiryInputs, MaxLog + 1, MaxBatchId + 1)
    \/ UseBatch(ViewQuantities, MaxLog + 1, MaxBatchId + 1)
    \/ ProductDetail

SpecView == Init /\ [][NextView]_vars

(* Two overlapping use_batch requests for positive quantities on one   *)
(* batch of received stock                                             *)
ConcQuantities == {q \in Quantities : q > 0}

InitConc ==
    /\ users = {[id |-> 1, username |-> "admin", role |-> "admin"]}
    /\ products = {[id |-> 1, barcode |-> "111", name |-> "Flour"]}
    /\ \E qty \in {q \in Quantities : q >= 0} :
          /\ batches = {[id |-> 1, product_id |-> 1,
                         quantity_initial |-> qty, quantity_current |-> qty,
                         expiry_date |-> NoExpiry]}
          /\ logs = <<LogRow("admin", "Flour", "CREATE", 0),
                      LogRow("admin", "Flour", "IN", qty)>>
    /\ resp = [op |-> "add_batch", result |-> "ok"]
    /\ view = [product_id |-> 0, batches |-> <<>>]
    /\ req = [r \in Requests |-> IdleRequest]

NextConc ==
    \/ UseBatchLoad(ConcQuantities)
    \/ UseBatchCommit

SpecConc == InitConc /\ [][NextConc]_vars

----------------------------------------------------------------------------
(* Properties *)

IsAdminRow(u) == u.role = "admin"

RECURSIVE SumLog(_, _)
SumLog(rows, action) ==
    IF rows = <<>> THEN 0
    ELSE (IF Head(rows).action = action THEN Head(rows).quantity_change ELSE 0)
         + SumLog(Tail(rows), action)

CountLog(action) == Cardinality({i \in DOMAIN logs : logs[i].action = action})

(* C1: every Batch in the store satisfies                                *)
(* 0 <= quantity_current <= quantity_initial in every reachable state.   *)
C1_QuantityBounds ==
    \A b \in batches :
       0 <= b.quantity_current /\ b.quantity_current <= b.quantity_initial

(* C2: use_batch succeeds only when 0 < q <= quantity_current; for every *)
(* other q it answers insufficient-quantity, changes no batch and        *)
(* appends no Log entry.                                                 *)
C2_UseBatchGuard ==
    [][resp'.op = "use_batch" =>
          \A actor \in users, b \in batches, q \in Quantities :
             (~(0 < q /\ q <= b.quantity_current) /\ use_batch(actor, b.id, q))
                => (/\ resp'.result = "insufficient"
                    /\ UNCHANGED <<batches, logs>>)
      ]_vars

(* C3: no two Products ever share a barcode; a create_product with a     *)
(* barcode already in the store, and an edit_product that changes the    *)
(* barcode to one held by another product, fail and leave the Product,   *)
(* Batch and Log tables unchanged.                                       *)
BarcodesDistinct(rows) == \A p, q \in rows : p.barcode = q.barcode => p = q

Rejected(result) ==
    resp'.result = result /\ UNCHANGED <<products, batches, logs>>

C3_BarcodesUnique ==
    [][/\ BarcodesDistinct(products')
       /\ (resp'.op = "create_product" /\ ~Rejected("duplicate")) =>
             \A actor \in users, barcode \in BarcodeInputs, name \in Names :
                (\E p \in products : p.barcode = barcode)
                   => ~create_product(actor, barcode, name)
       /\ (resp'.op = "edit_product" /\ ~Rejected("duplicate")) =>
             \A actor \in users, p \in products,
                barcode \in BarcodeInputs, name \in Names :
                (/\ barcode # p.barcode
                 /\ \E other \in products :
                       other # p /\ other.barcode = barcode
                 /\ edit_product(actor, p.id, barcode, name))
                   => (~IsAdminRow(actor) /\ Rejected("forbidden"))
      ]_vars

C3_Witness ==
    /\ resp = [op |-> "edit_product", result |-> "duplicate"]
    /\ Cardinality(products) = 2

(* C4: for an actor whose role is not 'admin', edit_product,             *)
(* delete_product, create_user and delete_user are denied and leave the  *)
(* User, Product, Batch and Log tables as they were.                     *)
Denied == resp'.result = "forbidden" /\ UNCHANGED store

C4_AdminOnly ==
    [][\A actor \in {u \in users : ~IsAdminRow(u)} :
          /\ resp'.op = "edit_product" =>
                \A id \in 1..MaxProductId,
                   barcode \in BarcodeInputs, name \in Names :
                   edit_product(actor, id, barcode, name) => Denied
          /\ resp'.op = "delete_product" =>
                \A id \in 1..MaxProductId :
                   delete_product(actor, id) => Denied
          /\ resp'.op = "create_user" =>
                \A username \in Usernames, role \in RoleInputs :
                   create_user(actor, username, role) => Denied
          /\ resp'.op = "delete_user" =>
                \A uid \in 1..MaxUserId :
                   delete_user(actor, uid) => Denied
      ]_vars

C4_Witness ==
    /\ resp = [op |-> "delete_user", result |-> "forbidden"]
    /\ \E u \in users : u.role = "guest"
    /\ products # {}

(* C5: delete_product by an admin removes the Product and exactly the    *)
(* Batches that reference it and leaves every other Product and Batch    *)
(* and every Log entry unchanged; every Batch always references a        *)
(* Product of the store.                                                 *)
BatchesReferenceProducts(brows, prows) ==
    \A b \in brows : \E p \in prows : p.id = b.product_id

C5_DeleteCascades ==
    [][/\ BatchesReferenceProducts(batches', products')
       /\ resp'.op = "delete_product" =>
             \A actor \in users, p \in products :
                (IsAdminRow(actor) /\ delete_product(actor, p.id))
                   => (/\ products' = products \ {p}
                       /\ batches' = {b \in batches : b.product_id # p.id}
                       /\ logs' = logs)
      ]_vars

C5_Witness ==
    /\ resp = [op |-> "delete_product", result |-> "ok"]
    /\ CountLog("IN") > Cardinality(batches)
    /\ products # {}

(* C6: the Log only grows, by one entry per successful create_product    *)
(* (CREATE, 0), add_batch (IN, received quantity) and use_batch (OUT,    *)
(* consumed quantity) with the actor's username and the product's name,  *)
(* written in the same step as the data change; failed and denied        *)
(* requests, edit_product, delete_product, create_user and delete_user   *)
(* leave it unchanged.                                                   *)
Answered(op) == resp' = [op |-> op, result |-> "ok"]

C6_LogAppendOnly ==
    [][/\ resp'.result # "ok" => logs' = logs
       /\ resp'.op \in {"edit_product", "delete_product",
                        "create_user", "delete_user"} => logs' = logs
       /\ Len(logs') >= Len(logs)
       /\ SubSeq(logs', 1, Len(logs)) = logs
       /\ Answered("create_product") =>
             \A actor \in users, barcode \in BarcodeInputs, name \in Names :
                create_product(actor, barcode, name)
                   => /\ logs' = Append(logs,
                                   [user_id |-> actor.username,
                                    product_name |-> name,
                                    action |-> "CREATE",
                                    quantity_change |-> 0])
                      /\ \E p \in products' \ products :
                            p.barcode = barcode /\ p.name = name
       /\ Answered("add_batch") =>
             \A actor \in users, p \in products, qty \in Quantities :
                add_batch(actor, p.id, qty, NoExpiry)
                   => /\ logs' = Append(logs,
                                   [user_id |-> actor.username,
                                    product_name |-> p.name,
                                    action |-> "IN",
                                    quantity_change |-> qty])
                      /\ \E b \in batches' \ batches :
                            b.product_id = p.id /\ b.quantity_current = qty
       /\ Answered("use_batch") =>
             \A actor \in users, b \in batches, qty \in Quantities :
                use_batch(actor, b.id, qty)
                   => /\ \E p \in products :
                            /\ p.id = b.product_id
                            /\ logs' = Append(logs,
                                         [user_id |-> actor.username,
                                          product_name |-> p.name,
                                          action |-> "OUT",
                                          quantity_change |-> qty])
                      /\ \E used \in batches' :
                            /\ used.id = b.id
                            /\ used.quantity_current =
                                  b.quantity_current - qty
      ]_vars

C6_Witness ==
    /\ resp = [op |-> "delete_product", result |-> "ok"]
    /\ Len(logs) = 3
    /\ logs[1].action = "CREATE" /\ logs[1].product_name = "Flour"
    /\ logs[2].action = "IN" /\ logs[2].product_name = "Rye"
    /\ logs[3].action = "OUT" /\ logs[3].user_id = "bob"
    /\ products = {}

(* C7: a Batch's quantity_initial never changes and its                  *)
(* quantity_current never increases, whatever the request.               *)
C7_CurrentNeverIncreases ==
    [][\A b \in batches, c \in batches' :
          c.id = b.id =>
             /\ c.quantity_initial = b.quantity_initial
             /\ c.quantity_current <= b.quantity_current
      ]_vars

(* C8: the batch list of product_detail holds exactly the product's      *)
(* batches with quantity_current > 0, in ascending order of expiry       *)
(* date, batches without an expiry date after all batches with one.      *)
ListsActiveBatches ==
    /\ {view.batches[i] : i \in DOMAIN view.batches} = ActiveOf(view.product_id)
    /\ Len(view.batches) = Cardinality(ActiveOf(view.product_id))

DatesAscending ==
    \A i, j \in DOMAIN view.batches :
       (/\ i < j
        /\ view.batches[i].expiry_date # NoExpiry
        /\ view.batches[j].expiry_date # NoExpiry)
          => view.batches[i].expiry_date <= view.batches[j].expiry_date

RECURSIVE SumTotals(_)
SumTotals(rows) ==
    IF rows = {} THEN 0
    ELSE LET p == CHOOSE x \in rows : TRUE
         IN total_quantity(p) + SumTotals(rows \ {p})

NoProductDeleted == Cardinality(products) = CountLog("CREATE")

TheBatch == CHOOSE b \in batches : b.id = 1

Succeeded == {r \in Requests : req[r].pc = "ok"}

AllAnswered ==
    \A r \in Requests : req[r].pc \in {"ok", "insufficient", "notfound"}

RECURSIVE SumUsed(_)
SumUsed(rs) ==
    IF rs = {} THEN 0
    ELSE LET r == CHOOSE x \in rs : TRUE
         IN req[r].qty_to_use + SumUsed(rs \ {r})

(* no request committed between another request's load and its commit *)
NoOverlap == \A r \in Succeeded : req[r].pos = req[r].seen + 1

C10_NoLostDecrement ==
    /\ TheBatch.quantity_current >= 0
    /\ AllAnswered =>
          TheBatch.quantity_current =
             TheBatch.quantity_initial - SumUsed(Succeeded)

(* C10 as amended: quantity_current never becomes negative; once both    *)
(* have answered it is what the last request to commit loaded minus its  *)
(* quantity, and it is the starting value minus the quantities of the    *)
(* succeeded requests when no request committed between another's load   *)
(* and commit.                                                           *)
C10_LastCommitWins ==
    /\ TheBatch.quantity_current >= 0
    /\ AllAnswered =>
          /\ Succeeded = {} =>
                TheBatch.quantity_current = TheBatch.quantity_initial
          /\ \A r \in Succeeded :
                (\A o \in Succeeded : req[o].pos <= req[r].pos) =>
                   TheBatch.quantity_current =
                      req[r].quantity_current - req[r].qty_to_use
          /\ NoOverlap =>
                TheBatch.quantity_current =
                   TheBatch.quantity_initial - SumUsed(Succeeded)

C10_Witness ==
    /\ AllAnswered
    /\ Succeeded = Requests
    /\ ~NoOverlap
    /\ \A r \in Requests : req[r].qty_to_use = 1
    /\ TheBatch.quantity_initial = 2
    /\ TheBatch.quantity_current = 1

====
